---- MODULE Spec2Model ----
(***************************************************************************)
(* Model of the analysis pipeline of code-dog-pr:                          *)
(*   backend/services/analysisEngine.js  (AnalysisEngine)                  *)
(*   backend/models/Job.js               (the Job document and its store)  *)
(*   backend/services/githubService.js   (clone / cleanup of the workspace)*)
(*                                                                         *)
(* A Job exists twice: the in-memory document the run mutates (job[j],     *)
(* also held by activeJobs) and the copy in the database (store[j]) that   *)
(* Job.findOne / getJobStatus read.  job.save() copies the document to the *)
(* store, or fails and leaves the store as it was.                         *)
(***************************************************************************)
EXTENDS Integers, Sequences, FiniteSets, TLC

\* ---------------------------------------------------------------- bounds
MaxCommits == 2
MaxExtraCommits == 1
MaxDeps == 1
MaxFlagged == 1
MaxSaveFailures == 2
MaxStopCalls == 2
MaxScoreItems == 2
MaxStopFailures == 1
MaxChars == 3

\* ------------------------------------------------------ program constants
batchSize == 5

JobIds == {"j1", "j2"}

NoScore == 0 - 1
NoLevel == "none"
NoConfidence == 0 - 1

VARIABLES
    env,          \* what the environment may do in this run (fixed at Init)
    job,          \* job[j]: the in-memory Job document of the run
    store,        \* store[j]: the Job as persisted in the database
    activeJobs,   \* AnalysisEngine.activeJobs (keys of the Map)
    bus,          \* bus[r]: events published to room r (io.to(r).emit)
    workspace,    \* job ids whose clone directory exists on disk
    cleanups,     \* cleanups[j]: calls of githubService.cleanup(j)
    pc,           \* pc[j]: position of the background run of j
    err,          \* err[j]: the error the run's catch block received
    loop,         \* loop[j]: locals of analyzeCommits / analyzeDependencies
    fails,        \* fails[j]: job.save() calls that have failed so far
    res,          \* the last response the HTTP API has sent
    docker,       \* the DockerService: its activeContainers and the Docker daemon
    sanitized     \* a value handed to sanitizeConfidence, and what it returned

vars == <<env, job, store, activeJobs, bus, workspace, cleanups, pc, err, loop, fails, res, docker,
          sanitized>>

\* ----------------------------------------------------------------- helpers
Min(a, b) == IF a <= b THEN a ELSE b
Max(a, b) == IF a >= b THEN a ELSE b

\* ------------------------------------------------------ JavaScript values
\* A value is [t, nan, n, s]: its type t; for a number, whether it is NaN and
\* otherwise its value n in millionths (One is 1); for a string, its
\* characters s.
One == 1000 * 1000

JsUndefined == [t |-> "undefined", nan |-> FALSE, n |-> 0, s |-> <<>>]
JsNull == [t |-> "null", nan |-> FALSE, n |-> 0, s |-> <<>>]
JsObject == [t |-> "object", nan |-> FALSE, n |-> 0, s |-> <<>>]
JsBoolean == [t |-> "boolean", nan |-> FALSE, n |-> 0, s |-> <<>>]
JsNaN == [t |-> "number", nan |-> TRUE, n |-> 0, s |-> <<>>]
JsNumber(n) == [t |-> "number", nan |-> FALSE, n |-> n, s |-> <<>>]
JsString(s) == [t |-> "string", nan |-> FALSE, n |-> 0, s |-> s]

DigitChars == {"0", "1", "5"}
DigitValue(c) == CASE c = "0" -> 0 [] c = "1" -> 1 [] c = "5" -> 5

RECURSIVE Pow10(_)
Pow10(k) == IF k = 0 THEN 1 ELSE 10 * Pow10(k - 1)

\* the number of digits of s from position i on
RECURSIVE DigitRun(_, _)
DigitRun(s, i) ==
    IF i <= Len(s) /\ s[i] \in DigitChars THEN 1 + DigitRun(s, i + 1) ELSE 0

\* the number written by the k digits of s from position i on
RECURSIVE DigitsValue(_, _, _)
DigitsValue(s, i, k) ==
    IF k = 0 THEN 0 ELSE 10 * DigitsValue(s, i, k - 1) + DigitValue(s[i + k - 1])

\* parseFloat: the longest prefix sign, digits, point, digits; NaN when the
\* prefix has no digit
parseFloat(s) ==
    LET negative == Len(s) >= 1 /\ s[1] = "-"
        first == IF negative THEN 2 ELSE 1
        whole == DigitRun(s, first)
        point == first + whole
        decimals == IF point <= Len(s) /\ s[point] = "." THEN DigitRun(s, point + 1) ELSE 0
        magnitude == DigitsValue(s, first, whole) * One
                     + (DigitsValue(s, point + 1, decimals) * One) \div Pow10(decimals)
    IN  IF whole + decimals = 0 THEN JsNaN
        ELSE JsNumber(IF negative THEN 0 - magnitude ELSE magnitude)

endsWith(s, c) == Len(s) >= 1 /\ s[Len(s)] = c

\* Math.min and Math.max: NaN when an argument is NaN
MathMin(a, b) == IF a.nan \/ b.nan THEN JsNaN ELSE JsNumber(Min(a.n, b.n))
MathMax(a, b) == IF a.nan \/ b.nan THEN JsNaN ELSE JsNumber(Max(a.n, b.n))

\* x / 100, to the millionth
Hundredth(x) == IF x.nan THEN JsNaN ELSE JsNumber((x.n - (x.n % 100)) \div 100)

\* x || 0 for a number x
OrZero(x) == IF x.nan \/ x.n = 0 THEN JsNumber(0) ELSE x

\* the numeric branch of sanitizeConfidence; NaN > 1 is false
SanitizeNumber(value) ==
    IF ~value.nan /\ value.n > One THEN MathMin(Hundredth(value), JsNumber(One))
    ELSE MathMax(JsNumber(0), MathMin(value, JsNumber(One)))

sanitizeConfidence(value) ==
    IF value.t \in {"null", "undefined"} THEN JsNumber(0)
    ELSE IF value.t = "string"
         THEN IF endsWith(value.s, "%")
              THEN OrZero(MathMin(MathMax(Hundredth(parseFloat(value.s)), JsNumber(0)), JsNumber(One)))
              ELSE SanitizeNumber(parseFloat(value.s))
    ELSE IF value.t = "number" THEN SanitizeNumber(value)
    ELSE JsNumber(0)

NotSanitized == [value |-> JsUndefined, applied |-> FALSE, result |-> JsUndefined]

\* Math.round of the non-negative rational num/den
Round(num, den) == (2 * num + den) \div (2 * den)

RECURSIVE SumSeq(_)
SumSeq(s) == IF s = <<>> THEN 0 ELSE Head(s) + SumSeq(Tail(s))

Count(s, P(_)) == Cardinality({i \in DOMAIN s : P(s[i])})

SelectType(s, t) == SelectSeq(s, LAMBDA e : e.type = t)

RoomOfFirstJob(j) == "j1"

Room(j) == j

\* -------------------------------------------------------- the Job document
NoJob == [status |-> "absent"]

\* job.aiSummary: whether it was assigned, and whether the schema accepts
\* its confidence (nothing else reads the assessment)
NoSummary == [assigned |-> FALSE, valid |-> TRUE]

NewJob(repoUrl, projectType) ==
    [repoUrl |-> repoUrl, projectType |-> projectType,
     status |-> "pending", progress |-> 0, endTime |-> FALSE,
     repoInfo |-> FALSE, riskScore |-> NoScore, riskLevel |-> NoLevel,
     commits |-> <<>>, dependencies |-> <<>>, alerts |-> <<>>, logs |-> <<>>,
     aiSummary |-> NoSummary, summaryReport |-> FALSE,
     buildInfo |-> [success |-> FALSE, errors |-> <<>>]]

LogEntry(level, message, source, arg) ==
    [level |-> level, message |-> message, source |-> source, arg |-> arg]

LogEvent(level, message, source, arg) ==
    [type |-> "log", level |-> level, message |-> message, source |-> source, arg |-> arg]

ProgressEvent(progress, status) ==
    [type |-> "progress", percentage |-> progress, stage |-> status]

\* an alert without aiConfidence, as emitAlert builds it
AlertRec(severity, type, title, item) ==
    [severity |-> severity, type |-> type, title |-> title, item |-> item,
     aiConfidence |-> NoConfidence]

\* an alert with the aiConfidence the caller passes (in hundredths)
AlertWith(severity, type, title, item, aiConfidence) ==
    [AlertRec(severity, type, title, item) EXCEPT !.aiConfidence = aiConfidence]

\* the validators of the Job schema on the fields the oracle fills:
\* alerts[].aiConfidence and aiSummary.confidence are within 0..1
ValidConfidenceRequired(value) == 0 <= value /\ value <= 100

ValidConfidence(value) == value = NoConfidence \/ (0 <= value /\ value <= 100)

ValidJob(doc) ==
    /\ \A i \in DOMAIN doc.alerts : ValidConfidence(doc.alerts[i].aiConfidence)
    /\ doc.aiSummary.valid

AlertEvent(a) ==
    [type |-> "alert", severity |-> a.severity, kind |-> a.type, title |-> a.title, item |-> a.item]

\* Job virtuals
totalAlerts(doc) == Len(doc.alerts)
criticalAlerts(doc) == Count(doc.alerts, LAMBDA a : a.severity = "critical")

\* ----------------------------------------------------------------------
\* A context c = [doc, db, ev, nf, active, saved, thrown] is the part of the
\* state one run works on: its document, the stored copy, the events of its
\* room, the number of saves the database has failed, whether activeJobs
\* holds the document, whether the last job.save() resolved, and whether the
\* try block of the current item has thrown.
\* ----------------------------------------------------------------------
Ctx(j) == [doc |-> job[j], db |-> store[j], ev |-> bus[Room(j)],
           nf |-> fails[j], active |-> j \in activeJobs,
           saved |-> TRUE, thrown |-> FALSE]

\* io.to(room).emit(...): a broadcast, it does not fail
Publish(c, e) == [c EXCEPT !.ev = Append(@, e)]

\* job.save(): a document the schema rejects is not written (ValidationError);
\* otherwise ok copies the document to the store and a failure of the
\* database changes nothing
Save(c, ok) ==
    IF ~ValidJob(c.doc) THEN [c EXCEPT !.saved = FALSE]
    ELSE IF ok THEN [c EXCEPT !.db = c.doc, !.saved = TRUE]
    ELSE [c EXCEPT !.nf = @ + 1, !.saved = FALSE]

\* jobSchema.methods.addLog
addLog(c, level, message, source, arg, ok) ==
    Save([c EXCEPT !.doc.logs = Append(@, LogEntry(level, message, source, arg))], ok)

\* jobSchema.methods.addAlert
addAlert(c, a, ok) ==
    Save([c EXCEPT !.doc.alerts = Append(@, a)], ok)

\* AnalysisEngine.emitLog: store the line on the job, then publish it; the
\* line is published as well when storing it fails.
emitLog(c, level, message, source, arg, ok) ==
    LET stored ==
            IF c.active THEN addLog(c, level, message, source, arg, ok)
            ELSE IF c.db # NoJob
                 THEN IF ok THEN [c EXCEPT !.db.logs = Append(@, LogEntry(level, message, source, arg))]
                            ELSE [c EXCEPT !.nf = @ + 1]
                 ELSE c
    IN  Publish(stored, LogEvent(level, message, source, arg))

\* AnalysisEngine.emitAlert: store the alert on the job, then publish it
emitAlert(c, a, ok) ==
    LET stored ==
            IF c.active THEN addAlert(c, a, ok)
            ELSE IF c.db # NoJob
                 THEN IF ok THEN [c EXCEPT !.db.alerts = Append(@, a)]
                            ELSE [c EXCEPT !.nf = @ + 1]
                 ELSE c
    IN  Publish(stored, AlertEvent(a))

\* AnalysisEngine.updateJobStatus, the synchronous part up to the first save
updateJobStatusSet(c, status, progress) ==
    [c EXCEPT !.doc.status = status, !.doc.progress = progress,
              !.doc.logs = Append(@, LogEntry("info", "Status updated", "system", progress))]

\* AnalysisEngine.updateJobStatus, from the save inside addLog on.
\* The result is [c, thrown].
updateJobStatusIO(c, ok1, ok2) ==
    LET c1 == Save(c, ok1) IN
    IF ~c1.saved THEN [c |-> c1, thrown |-> TRUE]
    ELSE LET c2 == Save(c1, ok2) IN
         IF ~c2.saved THEN [c |-> c2, thrown |-> TRUE]
         ELSE [c |-> Publish(c2, ProgressEvent(c2.doc.progress, c2.doc.status)),
               thrown |-> FALSE]

updateJobStatus(c, status, progress, ok1, ok2) ==
    updateJobStatusIO(updateJobStatusSet(c, status, progress), ok1, ok2)


\* ------------------------------------------------------ risk scoring engine
commitWeight == 40
dependencyWeight == 35
alertWeight == 25

riskLevelScores(l) ==
    CASE l = "safe" -> 0 [] l = "low" -> 25 [] l = "medium" -> 50
      [] l = "high" -> 75 [] l = "critical" -> 100

severityScores(s) ==
    CASE s = "low" -> 25 [] s = "medium" -> 50 [] s = "high" -> 75 [] s = "critical" -> 100

\* The means calculateRiskScore divides by, as exact fractions: a mean is
\* <<sum, count>>, <<0, 0>> for an empty list.
CommitMean(doc) ==
    <<SumSeq([i \in 1..Len(doc.commits) |-> doc.commits[i].riskScore]), Len(doc.commits)>>

DependencyMean(doc) ==
    <<SumSeq([i \in 1..Len(doc.dependencies) |-> riskLevelScores(doc.dependencies[i].riskLevel)]),
      Len(doc.dependencies)>>

AlertMean(doc) ==
    <<SumSeq([i \in 1..Len(doc.alerts) |-> severityScores(doc.alerts[i].severity)]), Len(doc.alerts)>>

SameMean(m, p, q) == IF m[2] = 0 THEN q = 0 ELSE q # 0 /\ m[1] * q = p * m[2]

\* calculateRiskScore computes in binary64 (0.4, 0.35 and 0.25 are not exact
\* there).  For lists of the lengths and values this model builds, the
\* binary64 quotient totalScore / factors rounds as the exact quotient does,
\* except for the following means <<commits p/q, dependencies p/q, alerts
\* p/q>> (q = 0: the list is empty): their exact quotient is k + 1/2, their
\* binary64 quotient lies just below it, and Math.round returns k.
TiesRoundedDown ==
    {<<16, 1, 0, 0, 175, 2>>, <<21, 1, 0, 0, 185, 2>>, <<21, 2, 0, 0, 125, 2>>,
     <<32, 1, 0, 0, 155, 2>>, <<43, 2, 0, 0, 0, 0>>, <<57, 1, 0, 0, 75, 2>>,
     <<90, 1, 250, 3, 100, 3>>, <<95, 1, 250, 3, 100, 3>>, <<100, 1, 250, 3, 100, 3>>,
     <<175, 2, 250, 3, 100, 3>>, <<175, 4, 125, 3, 125, 3>>, <<185, 2, 250, 3, 100, 3>>,
     <<255, 4, 125, 3, 125, 3>>, <<285, 4, 125, 3, 125, 3>>, <<335, 4, 125, 3, 125, 3>>,
     <<365, 4, 125, 3, 125, 3>>, <<365, 4, 250, 3, 250, 3>>}

RoundedDown(doc) ==
    \E t \in TiesRoundedDown :
        /\ SameMean(CommitMean(doc), t[1], t[2])
        /\ SameMean(DependencyMean(doc), t[3], t[4])
        /\ SameMean(AlertMean(doc), t[5], t[6])

\* riskScore of calculateRiskScore when the sum of the included weights is
\* left out of the division
RiskScoreOfNotRenormalized(doc) ==
    LET c == CommitMean(doc)
        d == DependencyMean(doc)
        a == AlertMean(doc)
        dc == IF c[2] > 0 THEN c[2] ELSE 1
        dd == IF d[2] > 0 THEN d[2] ELSE 1
        da == IF a[2] > 0 THEN a[2] ELSE 1
        totalScore == c[1] * commitWeight * dd * da
                      + d[1] * dependencyWeight * dc * da
                      + a[1] * alertWeight * dc * dd
    IN  Round(totalScore, 100 * dc * dd * da)

\* riskScore of calculateRiskScore: Math.round(totalScore / factors), the
\* weights kept as hundredths
RiskScoreOf(doc) ==
    LET c == CommitMean(doc)
        d == DependencyMean(doc)
        a == AlertMean(doc)
        dc == IF c[2] > 0 THEN c[2] ELSE 1
        dd == IF d[2] > 0 THEN d[2] ELSE 1
        da == IF a[2] > 0 THEN a[2] ELSE 1
        factors == (IF c[2] > 0 THEN commitWeight ELSE 0)
                   + (IF d[2] > 0 THEN dependencyWeight ELSE 0)
                   + (IF a[2] > 0 THEN alertWeight ELSE 0)
        totalScore == c[1] * commitWeight * dd * da
                      + d[1] * dependencyWeight * dc * da
                      + a[1] * alertWeight * dc * dd
    IN  IF factors = 0 THEN 0
        ELSE IF RoundedDown(doc) THEN Round(totalScore, factors * dc * dd * da) - 1
        ELSE Round(totalScore, factors * dc * dd * da)

RiskLevelOf(riskScore) ==
    IF riskScore >= 75 THEN "critical"
    ELSE IF riskScore >= 50 THEN "high"
    ELSE IF riskScore >= 25 THEN "medium"
    ELSE "low"

\* ------------------------------------------------- derived from verdicts
CommitSeverity(riskScore) == IF riskScore > 90 THEN "critical" ELSE "high"

CommitAlerts(riskScore) == riskScore > 70

DepSeverity(riskLevel) == IF riskLevel = "critical" THEN "critical" ELSE "high"

DepAlerts(riskLevel) == riskLevel = "high" \/ riskLevel = "critical"

\* items of the document the oracle flagged (bounded by env.maxFlagged)
Flagged(doc) ==
    Count(doc.commits, LAMBDA x : CommitAlerts(x.riskScore))
    + Count(doc.dependencies, LAMBDA d : DepAlerts(d.riskLevel) \/ d.isTyposquat)

\* progress written after the batch that starts at commit i, of n commits
BatchProgressRemaining(i, n) == 15 + Round((n - i) * 25, n)

BatchProgress(i, n) == 15 + Round(i * 25, n)

\* the payload of the `done` event of a successful run
DoneSummaryHighAsCritical(doc) ==
    [totalAlerts |-> totalAlerts(doc),
     criticalAlerts |-> Count(doc.alerts, LAMBDA a : a.severity \in {"high", "critical"}),
     dependencyIssues |-> Count(doc.dependencies, LAMBDA d : d.riskLevel = "high" \/ d.riskLevel = "critical"),
     commitIssues |-> Count(doc.commits, LAMBDA x : x.riskScore > 70)]

DoneSummary(doc) ==
    [totalAlerts |-> totalAlerts(doc),
     criticalAlerts |-> criticalAlerts(doc),
     dependencyIssues |-> Count(doc.dependencies, LAMBDA d : d.riskLevel = "high" \/ d.riskLevel = "critical"),
     commitIssues |-> Count(doc.commits, LAMBDA x : x.riskScore > 70)]

DoneEvent(doc) ==
    [type |-> "done", riskScore |-> doc.riskScore, riskLevel |-> doc.riskLevel,
     summary |-> DoneSummary(doc), alerts |-> doc.alerts, error |-> "none"]

\* the payload of the `done` event of handleAnalysisError
FailedDoneEvent(e) ==
    [type |-> "done", riskScore |-> 0, riskLevel |-> "unknown",
     summary |-> [totalAlerts |-> 0, criticalAlerts |-> 0, dependencyIssues |-> 0, commitIssues |-> 0],
     alerts |-> <<>>, error |-> e]

\* ------------------------------------------------------------ the HTTP API
\* A repository reference is held as the list of its parts between slashes:
\* "https://github.com/owner/repo" is <<"https:", "", "github.com", "owner",
\* "repo">>; the missing or empty reference is <<>>.
GoodUrl == <<"https:", "", "github.com", "owner", "repo">>

RepoUrls ==
    {<<>>, GoodUrl, GoodUrl \o <<"tree", "main">>,
     <<"http:", "", "github.com", "owner", "repo">>,
     <<"https:", "", "gitlab.com", "owner", "repo">>,
     <<"https:", "", "github.com", "owner">>,
     <<"https:", "", "github.com", "owner", "">>,
     <<"https:", "", "github.com", "", "repo">>}

ProjectTypes == {"", "nodejs", "python", "ruby"}

\* the requests of the model: every reference with a recognized category, and
\* a well-formed reference with every category
Requests == (RepoUrls \X {"nodejs"}) \cup ({GoodUrl} \X ProjectTypes)

\* /^https:\/\/github\.com\/[^\/]+\/[^\/]+/.test(repoUrl)
urlPattern(repoUrl) ==
    /\ Len(repoUrl) >= 5
    /\ repoUrl[1] = "https:" /\ repoUrl[2] = "" /\ repoUrl[3] = "github.com"
    /\ repoUrl[4] # "" /\ repoUrl[5] # ""

\* the validation of POST /api/analyze-repo: the error it answers, or "none"
ValidationSkipsUrl(repoUrl, projectType) ==
    IF repoUrl = <<>> \/ projectType = "" THEN "Missing required fields"
    ELSE IF projectType \notin {"nodejs", "python"} THEN "Invalid project type"
    ELSE "none"

Validation(repoUrl, projectType) ==
    IF repoUrl = <<>> \/ projectType = "" THEN "Missing required fields"
    ELSE IF projectType \notin {"nodejs", "python"} THEN "Invalid project type"
    ELSE IF ~urlPattern(repoUrl) THEN "Invalid GitHub repository URL format"
    ELSE "none"

\* an exchange of the API: the request, the status code and the body sent
NoResponse == [req |-> <<>>, code |-> 0]

AnalyzeRepoReq(repoUrl, projectType) == <<"POST /api/analyze-repo", repoUrl, projectType>>

BadRequest(repoUrl, projectType, error) ==
    [req |-> AnalyzeRepoReq(repoUrl, projectType), code |-> 400, body |-> [error |-> error]]

\* res.json({ jobId: job.jobId, status: job.status, ... })
Started(jobId, doc) ==
    [req |-> AnalyzeRepoReq(doc.repoUrl, doc.projectType), code |-> 200,
     body |-> [jobId |-> jobId, status |-> doc.status]]

StartFailed(doc) ==
    [req |-> AnalyzeRepoReq(doc.repoUrl, doc.projectType), code |-> 500,
     body |-> [error |-> "Failed to start analysis"]]

\* ------------------------------------------------------ the DockerService
\* docker.activeContainers[j]: the Map has an entry for job j;
\* docker.daemon[j]: the container codedog-analysis-j as the Docker daemon
\* holds it ("absent", "created" or "running"; AutoRemove removes it once
\* it stops); docker.stopping[j]: a stopContainer(j) awaits container.stop;
\* docker.stops[j] / docker.released[j]: stop requests sent to the daemon /
\* stopContainer calls returned, since the container of j was created;
\* docker.failures: daemon errors so far.
NoDocker ==
    [activeContainers |-> [j \in JobIds |-> FALSE],
     daemon |-> [j \in JobIds |-> "absent"],
     stopping |-> [j \in JobIds |-> FALSE],
     stops |-> [j \in JobIds |-> 0],
     released |-> [j \in JobIds |-> 0],
     startFailed |-> [j \in JobIds |-> FALSE],
     failures |-> 0]

\* what container.stop({ t: 10 }) answers for a container in state s when
\* the daemon works: 204, 304 (not running) or 404 (no such container)
StopStatus(s) ==
    CASE s = "running" -> 204 [] s = "created" -> 304 [] s = "absent" -> 404

\* ------------------------------------------------------------------ Init
Env ==
    [ids |-> {"j1"}, requests |-> {<<GoodUrl, "nodejs">>},
     maxCommits |-> MaxCommits, maxDeps |-> MaxDeps,
     maxFlagged |-> MaxFlagged, maxSaveFailures |-> MaxSaveFailures,
     oracleUp |-> TRUE]

NoLoop == [n |-> 0, i |-> 0, k |-> 0, nd |-> 0, d |-> 0, caught |-> 0]

InitState ==
    /\ job = [j \in JobIds |-> NoJob]
    /\ store = [j \in JobIds |-> NoJob]
    /\ activeJobs = {}
    /\ bus = [r \in JobIds |-> <<>>]
    /\ workspace = {}
    /\ cleanups = [j \in JobIds |-> 0]
    /\ pc = [j \in JobIds |-> "none"]
    /\ err = [j \in JobIds |-> "none"]
    /\ loop = [j \in JobIds |-> NoLoop]
    /\ fails = [j \in JobIds |-> 0]
    /\ res = NoResponse
    /\ docker = NoDocker
    /\ sanitized = NotSanitized

Init == env = Env /\ InitState

\* ------------------------------------------------- writing a context back
Commit(j, c) ==
    /\ c.nf <= env.maxSaveFailures
    /\ job' = [job EXCEPT ![j] = c.doc]
    /\ store' = [store EXCEPT ![j] = c.db]
    /\ bus' = [bus EXCEPT ![Room(j)] = c.ev]
    /\ fails' = [fails EXCEPT ![j] = c.nf]

Goto(j, c, p) ==
    /\ Commit(j, c)
    /\ pc' = [pc EXCEPT ![j] = p]
    /\ UNCHANGED err

\* an exception reaches the catch block of runAnalysis
Throw(j, c, e) ==
    /\ Commit(j, c)
    /\ pc' = [pc EXCEPT ![j] = "error"]
    /\ err' = [err EXCEPT ![j] = e]

\* the items the oracle has flagged in the documents of the jobs ids
RECURSIVE FlaggedItems(_)
FlaggedItems(ids) ==
    IF ids = {} THEN 0
    ELSE LET j == CHOOSE x \in ids : TRUE
         IN  (IF job[j] = NoJob THEN 0 ELSE Flagged(job[j])) + FlaggedItems(ids \ {j})

\* ------------------------------------------------------------ submission
\* POST /api/analyze-repo up to the first await of startAnalysis: the request
\* is validated and answered 400, or a job id is generated, the Job document
\* is constructed and its first save is in flight
Submit ==
    /\ \E rq \in env.requests :
        LET error == Validation(rq[1], rq[2]) IN
        IF error # "none"
        THEN /\ res' = BadRequest(rq[1], rq[2], error)
             /\ UNCHANGED <<job, pc>>
        ELSE /\ \E j \in env.ids :
                    /\ pc[j] = "none"
                    /\ job' = [job EXCEPT ![j] = NewJob(rq[1], rq[2])]
                    /\ pc' = [pc EXCEPT ![j] = "create"]
             /\ UNCHANGED res
    /\ UNCHANGED <<env, sanitized, docker, store, activeJobs, bus, workspace, cleanups, err, loop, fails>>

\* startAnalysis once the save has settled: register the job and call
\* runAnalysis, which runs up to its first await (the save inside the first
\* updateJobStatus) before startAnalysis returns the job.  The .catch on the
\* promise of runAnalysis never runs: runAnalysis catches every exception and
\* handleAnalysisError catches its own.  The handler then answers with the
\* status of the job startAnalysis returned.
StartAnalysis(j) ==
    /\ pc[j] = "create"
    /\ \E ok \in BOOLEAN :
        IF ok
        THEN /\ store' = [store EXCEPT ![j] = job[j]]
             /\ activeJobs' = activeJobs \cup {j}
             /\ job' = [job EXCEPT ![j] = updateJobStatusSet(Ctx(j), "cloning", 5).doc]
             /\ pc' = [pc EXCEPT ![j] = "status5"]
             /\ res' = Started(j, job'[j])
             /\ UNCHANGED fails
        ELSE /\ fails[j] < env.maxSaveFailures
             /\ fails' = [fails EXCEPT ![j] = @ + 1]
             /\ job' = [job EXCEPT ![j] = NoJob]
             /\ pc' = [pc EXCEPT ![j] = "unsaved"]
             /\ res' = StartFailed(job[j])
             /\ UNCHANGED <<store, activeJobs>>
    /\ UNCHANGED <<env, sanitized, docker, bus, workspace, cleanups, err, loop>>

\* ------------------------------------------- the phases of runAnalysis
StatusPcs == {"status5", "status15", "status40", "status60", "status80", "status90"}

StatusOf(p) == IF p \in {"status5", "status15"} THEN "cloning" ELSE "analyzing"

ProgressOf(p) ==
    CASE p = "status5" -> 5 [] p = "status15" -> 15 [] p = "status40" -> 40
      [] p = "status60" -> 60 [] p = "status80" -> 80 [] p = "status90" -> 90

AfterStatus(p) ==
    CASE p = "status5" -> "logStart" [] p = "status15" -> "logCommits"
      [] p = "status40" -> "logDeps" [] p = "status60" -> "logAI"
      [] p = "status80" -> "logRisk" [] p = "status90" -> "logFinal"

\* await this.updateJobStatus(job, status, progress) in runAnalysis
StatusStep(j) ==
    /\ pc[j] \in StatusPcs
    /\ \E ok1, ok2 \in BOOLEAN :
        LET c == Ctx(j)
            r == IF pc[j] = "status5"
                 THEN updateJobStatusIO(c, ok1, ok2)
                 ELSE updateJobStatus(c, StatusOf(pc[j]), ProgressOf(pc[j]), ok1, ok2)
        IN  IF r.thrown THEN Throw(j, r.c, "SaveFailed")
            ELSE Goto(j, r.c, AfterStatus(pc[j]))
    /\ UNCHANGED <<env, sanitized, docker, res, activeJobs, workspace, cleanups, loop>>

LogPcs == {"logStart", "logCommits", "logDeps", "logAI", "logRisk", "logFinal", "logCompleted"}

LogMessage(p) ==
    CASE p = "logStart" -> "Starting repository analysis"
      [] p = "logCommits" -> "Analyzing commit history"
      [] p = "logDeps" -> "Analyzing dependencies"
      [] p = "logAI" -> "Running AI-powered threat analysis"
      [] p = "logRisk" -> "Calculating risk score"
      [] p = "logFinal" -> "Generating final assessment"
      [] p = "logCompleted" -> "Analysis completed"

LogSource(p) ==
    CASE p \in {"logStart", "logCompleted"} -> "system"
      [] p \in {"logCommits", "logDeps", "logRisk"} -> "analysis"
      [] p \in {"logAI", "logFinal"} -> "ai"

AfterLog(p) ==
    CASE p = "logStart" -> "clone" [] p = "logCommits" -> "fetchCommits"
      [] p = "logDeps" -> "fetchDeps" [] p = "logAI" -> "aiAnalysis"
      [] p = "logRisk" -> "risk" [] p = "logFinal" -> "final"
      [] p = "logCompleted" -> "emitDone"

\* await this.emitLog(job.jobId, 'info', ..., ...) in runAnalysis
LogStep(j) ==
    /\ pc[j] \in LogPcs
    /\ \E ok \in BOOLEAN :
        Goto(j, emitLog(Ctx(j), "info", LogMessage(pc[j]), LogSource(pc[j]), 0, ok), AfterLog(pc[j]))
    /\ UNCHANGED <<env, sanitized, docker, res, activeJobs, workspace, cleanups, loop>>

\* AnalysisEngine.cloneRepository
CloneRepository(j) ==
    /\ pc[j] = "clone"
    /\ \E ok1, cloned, ok2, ok3 \in BOOLEAN :
        LET c1 == emitLog(Ctx(j), "info", "Cloning repository", "system", 0, ok1) IN
        IF ~cloned
        THEN /\ Throw(j, emitLog(c1, "error", "Failed to clone repository", "system", 0, ok2), "CloneFailed")
             /\ \E left \in BOOLEAN :
                    workspace' = IF left THEN workspace \cup {j} ELSE workspace
        ELSE LET c2 == Save([c1 EXCEPT !.doc.repoInfo = TRUE], ok2) IN
             /\ workspace' = workspace \cup {j}
             /\ IF ~c2.saved
                THEN Throw(j, emitLog(c2, "error", "Failed to clone repository", "system", 0, ok3), "SaveFailed")
                ELSE Goto(j, emitLog(c2, "info", "Repository cloned successfully", "system", 0, ok3), "status15")
    /\ UNCHANGED <<env, sanitized, docker, res, activeJobs, cleanups, loop>>


\* ----------------------------------------------------------------------
\* The oracle adapter (AIService).  A verdict is the object parsed from the
\* model's text; a field the object lacks holds NoScore, NoLevel, "absent"
\* or NoConfidence.  Confidences are in hundredths: 90 is 0.9, 9000 is 90.
\* ----------------------------------------------------------------------
NoVerdict ==
    [riskScore |-> NoScore, riskLevel |-> NoLevel, typosquatting |-> "absent",
     confidence |-> NoConfidence]

\* a text without a JSON object, and a text holding the object value
Prose == [json |-> FALSE, value |-> NoVerdict]
JsonText(value) == [json |-> TRUE, value |-> value]

\* what one call of the model endpoint yields: the service is not available
\* (or the request is rejected), or it answers with a text
Unavailable == [available |-> FALSE, text |-> Prose]
Reply(text) == [available |-> TRUE, text |-> text]

getFallbackResponse == [response |-> Prose, model |-> "fallback"]

generateResponse(reply) ==
    IF ~reply.available THEN getFallbackResponse
    ELSE [response |-> reply.text, model |-> "model"]

\* without a JSON object the result is { error, rawResponse }
parseAIResponse(response) ==
    IF response.json THEN response.value ELSE NoVerdict

getFallbackCommitAnalysis == [NoVerdict EXCEPT !.riskScore = 25, !.confidence = 10]

getFallbackDependencyAnalysis ==
    [NoVerdict EXCEPT !.riskLevel = "medium", !.typosquatting = "no", !.confidence = 10]

getFallbackOverallAssessment == [NoVerdict EXCEPT !.confidence = 10]

\* generateResponse and parseAIResponse catch their own errors, so the catch
\* blocks that return the fallback verdicts have nothing to catch
analyzeCommit(reply) == parseAIResponse(generateResponse(reply).response)

analyzeDependency(reply) == parseAIResponse(generateResponse(reply).response)

generateOverallAssessment(reply) == parseAIResponse(generateResponse(reply).response)

\* the verdicts the model gives in this development
CommitVerdicts ==
    { [NoVerdict EXCEPT !.riskScore = v[1], !.confidence = v[2]] :
        v \in {<<0, 0>>, <<80, 90>>, <<80, 9000>>, <<95, 90>>} }

DepVerdicts ==
    { [NoVerdict EXCEPT !.riskLevel = v[1], !.typosquatting = v[2], !.confidence = v[3]] :
        v \in {<<"safe", "no", 0>>, <<"safe", "yes", 0>>, <<"high", "no", 90>>,
               <<"high", "yes", 90>>, <<"high", "no", 9000>>, <<"high", "yes", 9000>>,
               <<"critical", "no", 90>>, <<"critical", "yes", 90>>} }

AssessmentVerdicts == { [NoVerdict EXCEPT !.confidence = v] : v \in {90, 9000} }

\* typosquatting.confidence of a verdict that has a typosquatting object
TyposquatConfidence == 90

\* the replies one call can get: none but Unavailable when the oracle is down
Replies(oracleUp, verdicts) ==
    IF oracleUp
    THEN {Unavailable, Reply(Prose)} \cup {Reply(JsonText(v)) : v \in verdicts}
    ELSE {Unavailable}

\* a confidence of a verdict (hundredths, or none) as the JavaScript value
\* the engine reads, and a sanitized confidence in hundredths
JsConfidence(confidence) ==
    IF confidence = NoConfidence THEN JsUndefined ELSE JsNumber(confidence * (One \div 100))

SanitizedConfidence(confidence) ==
    LET r == sanitizeConfidence(JsConfidence(confidence))
    IN  IF r.nan THEN NoConfidence ELSE r.n \div (One \div 100)

\* AnalysisEngine.analyzeCommits, up to the loop: the commits are read from
\* the clone (git log may fail) and their number is logged
FetchCommits(j) ==
    /\ pc[j] = "fetchCommits"
    /\ \E gitOk, ok \in BOOLEAN, n \in 0..env.maxCommits :
        IF ~gitOk
        THEN /\ n = 0
             /\ Throw(j, emitLog(Ctx(j), "error", "Commit analysis failed", "analysis", 0, ok), "GitLogFailed")
             /\ UNCHANGED loop
        ELSE /\ Goto(j, emitLog(Ctx(j), "info", "Found commits to analyze", "analysis", n, ok),
                     IF n > 0 THEN "commitItem" ELSE "commitsSave")
             /\ loop' = [loop EXCEPT ![j].n = n, ![j].i = 0, ![j].k = 0]
    /\ UNCHANGED <<env, sanitized, docker, res, activeJobs, workspace, cleanups>>

\* commit.riskScore = aiAnalysis.riskScore || 0
CommitRiskScoreUndefaulted(aiAnalysis) == aiAnalysis.riskScore

CommitRiskScore(aiAnalysis) ==
    IF aiAnalysis.riskScore = NoScore THEN 0 ELSE aiAnalysis.riskScore

\* the commit record analyzeCommits pushes on job.commits
CommitRec(aiAnalysis) ==
    [riskScore |-> CommitRiskScore(aiAnalysis),
     confidence |-> SanitizedConfidence(aiAnalysis.confidence)]

\* the body of the per-commit try block of analyzeCommits, for commit k with
\* the oracle's verdict aiAnalysis; an exception ends the item only
AnalyzeCommit(c, k, aiAnalysis, okA, okB, okC) ==
    LET riskScore == CommitRiskScore(aiAnalysis)
        c1 == [c EXCEPT !.doc.commits = Append(@, CommitRec(aiAnalysis))]
    IN
    IF CommitAlerts(riskScore)
    THEN LET c2 == addAlert(c1, AlertWith(CommitSeverity(riskScore), "commit", "High-risk commit detected", k,
                                          aiAnalysis.confidence), okA) IN
         IF ~c2.saved THEN [c2 EXCEPT !.thrown = TRUE]
         ELSE emitLog(emitAlert(c2, AlertRec(CommitSeverity(riskScore), "commit", "High-risk commit", k), okB),
                      "info", "Analyzed commit", "analysis", k, okC)
    ELSE emitLog(c1, "info", "Analyzed commit", "analysis", k, okC)

CommitItem(j) ==
    /\ pc[j] = "commitItem"
    /\ loop[j].k < Min(loop[j].i + batchSize, loop[j].n)
    /\ \E reply \in Replies(env.oracleUp, CommitVerdicts), okA, okB, okC \in BOOLEAN :
        LET aiAnalysis == analyzeCommit(reply)
            c == AnalyzeCommit(Ctx(j), loop[j].k, aiAnalysis, okA, okB, okC)
        IN  /\ CommitAlerts(CommitRiskScore(aiAnalysis)) => FlaggedItems(env.ids) < env.maxFlagged
            /\ Goto(j, c, IF loop[j].k + 1 < Min(loop[j].i + batchSize, loop[j].n)
                          THEN "commitItem" ELSE "batchProgress")
            /\ loop' = [loop EXCEPT ![j].k = @ + 1,
                                    ![j].caught = IF c.thrown THEN @ + 1 ELSE @]
    /\ UNCHANGED <<env, sanitized, docker, res, activeJobs, workspace, cleanups>>

\* the progress update that ends a batch of analyzeCommits
UpdateBatchProgress(j) ==
    /\ pc[j] = "batchProgress"
    /\ \E ok1, ok2, ok3 \in BOOLEAN :
        LET r == updateJobStatus(Ctx(j), "analyzing", BatchProgress(loop[j].i, loop[j].n), ok1, ok2) IN
        IF r.thrown
        THEN /\ Throw(j, emitLog(r.c, "error", "Commit analysis failed", "analysis", 0, ok3), "SaveFailed")
             /\ UNCHANGED loop
        ELSE /\ Goto(j, r.c, IF loop[j].i + batchSize < loop[j].n THEN "commitItem" ELSE "commitsSave")
             /\ loop' = [loop EXCEPT ![j].i = @ + batchSize]
    /\ UNCHANGED <<env, sanitized, docker, res, activeJobs, workspace, cleanups>>

\* the save that ends analyzeCommits
CommitsSave(j) ==
    /\ pc[j] = "commitsSave"
    /\ \E ok1, ok2 \in BOOLEAN :
        LET c1 == Save(Ctx(j), ok1) IN
        IF ~c1.saved
        THEN Throw(j, emitLog(c1, "error", "Commit analysis failed", "analysis", 0, ok2), "SaveFailed")
        ELSE Goto(j, c1, "status40")
    /\ UNCHANGED <<env, sanitized, docker, res, activeJobs, workspace, cleanups, loop>>

\* AnalysisEngine.analyzeDependencies, up to the loop
FetchDeps(j) ==
    /\ pc[j] = "fetchDeps"
    /\ \E ok \in BOOLEAN, n \in 0..env.maxDeps :
        /\ Goto(j, emitLog(Ctx(j), "info", "Found dependencies to analyze", "analysis", n, ok),
                IF n > 0 THEN "depItem" ELSE "depsSave")
        /\ loop' = [loop EXCEPT ![j].nd = n, ![j].d = 0]
    /\ UNCHANGED <<env, sanitized, docker, res, activeJobs, workspace, cleanups>>

\* riskLevel: aiAnalysis.riskLevel || 'safe'
DepRiskLevel(aiAnalysis) ==
    IF aiAnalysis.riskLevel = NoLevel THEN "safe" ELSE aiAnalysis.riskLevel

\* typosquatting: aiAnalysis.typosquatting || { isTyposquat: false, ... }
DepIsTyposquat(aiAnalysis) == aiAnalysis.typosquatting = "yes"

\* the dependency record analyzeDependencies pushes on job.dependencies
DepRec(aiAnalysis) ==
    [riskLevel |-> DepRiskLevel(aiAnalysis),
     isTyposquat |-> DepIsTyposquat(aiAnalysis),
     confidence |-> SanitizedConfidence(aiAnalysis.confidence)]

\* the body of the per-dependency try block of analyzeDependencies
AnalyzeDependency(c, d, aiAnalysis, okA, okB, okC, okD, okE) ==
    LET riskLevel == DepRiskLevel(aiAnalysis)
        isTyposquat == DepIsTyposquat(aiAnalysis)
        c1 == [c EXCEPT !.doc.dependencies = Append(@, DepRec(aiAnalysis))]
        c2 == IF DepAlerts(riskLevel)
              THEN addAlert(c1, AlertWith(DepSeverity(riskLevel), "dependency", "Risky dependency detected", d,
                                          aiAnalysis.confidence), okA)
              ELSE c1
        thrown2 == DepAlerts(riskLevel) /\ ~c2.saved
        c3 == IF DepAlerts(riskLevel)
              THEN emitAlert(c2, AlertRec(DepSeverity(riskLevel), "dependency", "Risky dependency", d), okB)
              ELSE c2
        c4 == IF isTyposquat
              THEN addAlert(c3, AlertWith("high", "dependency", "Potential typosquatting", d,
                                          TyposquatConfidence), okC)
              ELSE c3
        thrown4 == isTyposquat /\ ~c4.saved
        c5 == IF isTyposquat
              THEN emitAlert(c4, AlertRec("high", "dependency", "Typosquatting detected", d), okD)
              ELSE c4
    IN  IF thrown2 THEN [c2 EXCEPT !.thrown = TRUE]
        ELSE IF thrown4 THEN [c4 EXCEPT !.thrown = TRUE]
        ELSE emitLog(c5, "info", "Analyzed dependency", "analysis", d, okE)

DepItem(j) ==
    /\ pc[j] = "depItem"
    /\ loop[j].d < loop[j].nd
    /\ \E reply \in Replies(env.oracleUp, DepVerdicts), okA, okB, okC, okD, okE \in BOOLEAN :
        LET aiAnalysis == analyzeDependency(reply)
            c == AnalyzeDependency(Ctx(j), loop[j].d, aiAnalysis, okA, okB, okC, okD, okE)
        IN  /\ (DepAlerts(DepRiskLevel(aiAnalysis)) \/ DepIsTyposquat(aiAnalysis))
                   => FlaggedItems(env.ids) < env.maxFlagged
            /\ Goto(j, c, IF loop[j].d + 1 < loop[j].nd THEN "depItem" ELSE "depsSave")
            /\ loop' = [loop EXCEPT ![j].d = @ + 1,
                                    ![j].caught = IF c.thrown THEN @ + 1 ELSE @]
    /\ UNCHANGED <<env, sanitized, docker, res, activeJobs, workspace, cleanups>>

\* the save that ends analyzeDependencies
DepsSave(j) ==
    /\ pc[j] = "depsSave"
    /\ \E ok1, ok2 \in BOOLEAN :
        LET c1 == Save(Ctx(j), ok1) IN
        IF ~c1.saved
        THEN Throw(j, emitLog(c1, "error", "Dependency analysis failed", "analysis", 0, ok2), "SaveFailed")
        ELSE Goto(j, c1, "status60")
    /\ UNCHANGED <<env, sanitized, docker, res, activeJobs, workspace, cleanups, loop>>

\* AnalysisEngine.runAIAnalysis: never throws
RunAIAnalysis(j) ==
    /\ pc[j] = "aiAnalysis"
    /\ \E reply \in Replies(env.oracleUp, AssessmentVerdicts), ok1, ok2, ok3 \in BOOLEAN :
        LET c1 == emitLog(Ctx(j), "info", "Running comprehensive AI analysis", "ai", 0, ok1)
            assessment == generateOverallAssessment(reply)
            c2 == Save([c1 EXCEPT !.doc.aiSummary =
                           [assigned |-> TRUE, valid |-> ValidConfidence(assessment.confidence)]], ok2)
        IN  Goto(j, IF c2.saved THEN emitLog(c2, "info", "AI assessment completed", "ai", 0, ok3)
                         ELSE emitLog(c2, "warn", "AI analysis failed", "ai", 0, ok3),
                    "status80")
    /\ UNCHANGED <<env, sanitized, docker, res, activeJobs, workspace, cleanups, loop>>

\* AnalysisEngine.calculateRiskScore
CalculateRiskScore(j) ==
    /\ pc[j] = "risk"
    /\ \E ok1, ok2, ok3 \in BOOLEAN :
        LET c0 == Ctx(j)
            riskScore == RiskScoreOf(c0.doc)
            c1 == Save([c0 EXCEPT !.doc.riskScore = riskScore,
                                  !.doc.riskLevel = RiskLevelOf(riskScore)], ok1)
        IN  IF c1.saved
            THEN Goto(j, emitLog(c1, "info", "Risk score calculated", "analysis", riskScore, ok2), "status90")
            ELSE LET c2 == emitLog(c1, "error", "Risk calculation failed", "analysis", 0, ok2)
                     c3 == Save([c2 EXCEPT !.doc.riskScore = 50, !.doc.riskLevel = "medium"], ok3)
                 IN  IF c3.saved THEN Goto(j, c3, "status90") ELSE Throw(j, c3, "SaveFailed")
    /\ UNCHANGED <<env, sanitized, docker, res, activeJobs, workspace, cleanups, loop>>

\* AnalysisEngine.generateFinalAssessment: never throws
GenerateFinalAssessment(j) ==
    /\ pc[j] = "final"
    /\ \E ok1, ok2, ok3 \in BOOLEAN :
        LET c1 == Save([Ctx(j) EXCEPT !.doc.summaryReport = TRUE], ok1) IN
        Goto(j, IF c1.saved
                THEN emitLog(emitLog(c1, "info", "Final assessment completed", "system", 0, ok2),
                             "info", "Analysis Summary", "system", 0, ok3)
                ELSE emitLog(c1, "warn", "Final assessment generation failed", "system", 0, ok2),
             "complete")
    /\ UNCHANGED <<env, sanitized, docker, res, activeJobs, workspace, cleanups, loop>>

\* runAnalysis, "Complete analysis": the terminal fields and their save
Complete(j) ==
    /\ pc[j] = "complete"
    /\ \E ok \in BOOLEAN :
        LET c1 == Save([Ctx(j) EXCEPT !.doc.status = "completed", !.doc.endTime = TRUE,
                                      !.doc.progress = 100,
                                      !.doc.buildInfo = [success |-> TRUE, errors |-> <<>>]], ok)
        IN  IF c1.saved THEN Goto(j, c1, "logCompleted") ELSE Throw(j, c1, "SaveFailed")
    /\ UNCHANGED <<env, sanitized, docker, res, activeJobs, workspace, cleanups, loop>>

\* runAnalysis, "Emit completion event"
EmitDone(j) ==
    /\ pc[j] = "emitDone"
    /\ Goto(j, Publish(Ctx(j), DoneEvent(job[j])), "cleanup")
    /\ UNCHANGED <<env, sanitized, docker, res, activeJobs, workspace, cleanups, loop>>

\* githubService.cleanup followed by activeJobs.delete
Teardown(j) ==
    /\ workspace' = workspace \ {j}
    /\ cleanups' = [cleanups EXCEPT ![j] = @ + 1]
    /\ activeJobs' = activeJobs \ {j}

\* runAnalysis, "Cleanup"
Cleanup(j) ==
    /\ pc[j] = "cleanup"
    /\ Teardown(j)
    /\ pc' = [pc EXCEPT ![j] = "ended"]
    /\ UNCHANGED <<env, sanitized, docker, res, job, store, bus, err, loop, fails>>

\* handleAnalysisError once the failed state is saved: the failure is logged,
\* then the terminal event is published
FailedRunEventsDoneFirst(c, e, ok) ==
    emitLog(Publish(c, FailedDoneEvent(e)), "error", "Analysis failed", "system", 0, ok)

FailedRunEvents(c, e, ok) ==
    Publish(emitLog(c, "error", "Analysis failed", "system", 0, ok), FailedDoneEvent(e))

\* the fields handleAnalysisError assigns before its save
FailedDocCleared(doc, e) ==
    [doc EXCEPT !.status = "failed", !.endTime = TRUE,
                !.buildInfo = [success |-> FALSE, errors |-> <<e>>],
                !.progress = 0, !.alerts = <<>>]

FailedDoc(doc, e) ==
    [doc EXCEPT !.status = "failed", !.endTime = TRUE,
                !.buildInfo = [success |-> FALSE, errors |-> <<e>>]]

\* AnalysisEngine.handleAnalysisError up to its `done` event; a failing save
\* is caught by its own catch block, which only writes to the console
HandleAnalysisError(j) ==
    /\ pc[j] = "error"
    /\ \E ok1, ok2 \in BOOLEAN :
        LET c1 == Save([Ctx(j) EXCEPT !.doc = FailedDoc(@, err[j])], ok1)
        IN  IF ~c1.saved THEN Goto(j, c1, "ended")
            ELSE Goto(j, FailedRunEvents(c1, err[j], ok2), "errorCleanup")
    /\ UNCHANGED <<env, sanitized, docker, res, activeJobs, workspace, cleanups, loop>>

\* handleAnalysisError, "Cleanup"
ErrorCleanup(j) ==
    /\ pc[j] = "errorCleanup"
    /\ Teardown(j)
    /\ pc' = [pc EXCEPT ![j] = "ended"]
    /\ UNCHANGED <<env, sanitized, docker, res, job, store, bus, err, loop, fails>>

\* ------------------------------------------------------- reading a job
\* AnalysisEngine.getJobStatus: Job.findOne({ jobId }), 'Job not found' when
\* the store has no such job
getJobStatusFromRegistry(jobId) ==
    IF jobId \in activeJobs THEN [found |-> TRUE, job |-> job[jobId]]
    ELSE IF store[jobId] # NoJob THEN [found |-> TRUE, job |-> store[jobId]]
    ELSE [found |-> FALSE]

getJobStatus(jobId) ==
    IF store[jobId] # NoJob THEN [found |-> TRUE, job |-> store[jobId]]
    ELSE [found |-> FALSE]

NotFound(req) == [req |-> req, code |-> 404, body |-> [error |-> "Job not found"]]

\* the body of GET /api/job/:jobId/status
StatusBody(doc) ==
    [status |-> doc.status, progress |-> doc.progress, endTime |-> doc.endTime,
     riskScore |-> doc.riskScore, riskLevel |-> doc.riskLevel, repoInfo |-> doc.repoInfo,
     summary |-> [totalAlerts |-> totalAlerts(doc), criticalAlerts |-> criticalAlerts(doc),
                  commits |-> Len(doc.commits), dependencies |-> Len(doc.dependencies)]]

\* the body of GET /api/job/:jobId/details
DetailsBody(doc) ==
    [repoUrl |-> doc.repoUrl, projectType |-> doc.projectType,
     status |-> doc.status, progress |-> doc.progress, endTime |-> doc.endTime,
     riskScore |-> doc.riskScore, riskLevel |-> doc.riskLevel, repoInfo |-> doc.repoInfo,
     commits |-> doc.commits, dependencies |-> doc.dependencies, alerts |-> doc.alerts,
     logs |-> doc.logs, aiSummary |-> doc.aiSummary, buildInfo |-> doc.buildInfo]

engineVars == <<job, store, activeJobs, bus, workspace, cleanups, pc, err, loop, fails>>

\* GET /api/job/:jobId/status
GetStatus(j) ==
    /\ LET r == getJobStatus(j)
           req == <<"GET /api/job/status", j>>
       IN  res' = IF r.found THEN [req |-> req, code |-> 200, body |-> StatusBody(r.job)]
                  ELSE NotFound(req)
    /\ UNCHANGED <<env, sanitized, docker, engineVars>>

\* GET /api/job/:jobId/details
GetDetails(j) ==
    /\ LET r == getJobStatus(j)
           req == <<"GET /api/job/details", j>>
       IN  res' = IF r.found THEN [req |-> req, code |-> 200, body |-> DetailsBody(r.job)]
                  ELSE NotFound(req)
    /\ UNCHANGED <<env, sanitized, docker, engineVars>>

\* ---------------------------------------------------- the sandbox manager
\* DockerService.createAnalysisContainer: the container is created and
\* registered; a failing image build or createContainer (a container of
\* that name exists) throws and changes nothing
CreateAnalysisContainer(j) ==
    /\ docker.daemon[j] = "absent"
    /\ ~docker.stopping[j]
    /\ docker' = [docker EXCEPT !.daemon[j] = "created", !.activeContainers[j] = TRUE,
                                !.stops[j] = 0, !.released[j] = 0,
                                !.startFailed[j] = FALSE]
    /\ UNCHANGED <<env, sanitized, res, engineVars>>

\* DockerService.startContainer: the container reaches Running, or
\* container.start() rejects (the container stays created), or the container
\* is not Running within the timeout of waitForContainer because its command
\* has already ended (AutoRemove removes it); a failure is only rethrown
StartContainer(j) ==
    /\ docker.daemon[j] = "created"
    /\ ~docker.startFailed[j]
    /\ \E outcome \in {"running", "rejected", "timeout"} :
        docker' = CASE outcome = "running" -> [docker EXCEPT !.daemon[j] = "running"]
                    [] outcome = "rejected" -> [docker EXCEPT !.startFailed[j] = TRUE]
                    [] outcome = "timeout" ->
                           [docker EXCEPT !.startFailed[j] = TRUE, !.daemon[j] = "absent"]
    /\ UNCHANGED <<env, sanitized, res, engineVars>>

\* the command of the container ends; AutoRemove removes the container
ContainerExits(j) ==
    /\ docker.daemon[j] = "running"
    /\ docker' = [docker EXCEPT !.daemon[j] = "absent"]
    /\ UNCHANGED <<env, sanitized, res, engineVars>>

\* this.activeContainers.delete(jobId)
DeleteAllEntries(activeContainers, jobId) == [k \in JobIds |-> FALSE]

DeleteEntry(activeContainers, jobId) == [activeContainers EXCEPT ![jobId] = FALSE]

\* DockerService.stopContainer (and cleanup, which only awaits it) up to
\* `await container.stop`: without an entry it returns at once
StopContainer(j) ==
    /\ ~docker.stopping[j]
    /\ docker.released[j] < MaxStopCalls
    /\ docker' = IF docker.activeContainers[j]
                 THEN [docker EXCEPT !.stopping[j] = TRUE, !.stops[j] = @ + 1]
                 ELSE [docker EXCEPT !.released[j] = @ + 1]
    /\ UNCHANGED <<env, sanitized, res, engineVars>>

\* stopContainer once container.stop has answered: the entry is deleted after
\* 204 and 304; any other error is logged by the outer catch
StopContainerSettle(j) ==
    /\ docker.stopping[j]
    /\ \E up \in BOOLEAN :
        /\ ~up => docker.failures < MaxStopFailures
        /\ LET status == IF up THEN StopStatus(docker.daemon[j]) ELSE 500
               d1 == [docker EXCEPT !.stopping[j] = FALSE, !.released[j] = @ + 1,
                                    !.failures = IF up THEN @ ELSE @ + 1,
                                    !.daemon[j] = IF status = 204 THEN "absent" ELSE @]
           IN  docker' = IF status \in {204, 304}
                         THEN [d1 EXCEPT !.activeContainers = DeleteEntry(@, j)]
                         ELSE d1
    /\ UNCHANGED <<env, sanitized, res, engineVars>>

Next ==
    \/ Submit
    \/ \E j \in JobIds :
        \/ StartAnalysis(j)
        \/ StatusStep(j)
        \/ LogStep(j)
        \/ CloneRepository(j)
        \/ FetchCommits(j)
        \/ CommitItem(j)
        \/ UpdateBatchProgress(j)
        \/ CommitsSave(j)
        \/ FetchDeps(j)
        \/ DepItem(j)
        \/ DepsSave(j)
        \/ RunAIAnalysis(j)
        \/ CalculateRiskScore(j)
        \/ GenerateFinalAssessment(j)
        \/ Complete(j)
        \/ EmitDone(j)
        \/ Cleanup(j)
        \/ HandleAnalysisError(j)
        \/ ErrorCleanup(j)

Spec == Init /\ [][Next]_vars

\* the background run is a chain of promises the event loop keeps resolving
Fairness == \A j \in JobIds : WF_vars(
        StatusStep(j) \/ LogStep(j) \/ CloneRepository(j) \/ FetchCommits(j) \/ CommitItem(j)
        \/ UpdateBatchProgress(j) \/ CommitsSave(j) \/ FetchDeps(j) \/ DepItem(j) \/ DepsSave(j)
        \/ RunAIAnalysis(j) \/ CalculateRiskScore(j) \/ GenerateFinalAssessment(j) \/ Complete(j)
        \/ EmitDone(j) \/ Cleanup(j) \/ HandleAnalysisError(j) \/ ErrorCleanup(j))

TypeOK ==
    /\ activeJobs \subseteq JobIds
    /\ workspace \subseteq JobIds
    /\ \A j \in JobIds : fails[j] \in 0..env.maxSaveFailures


\* the engine together with clients that submit any request and read any job
InitApi ==
    /\ env = [Env EXCEPT !.requests = Requests, !.maxCommits = 1, !.maxDeps = 1,
                         !.maxSaveFailures = 0]
    /\ InitState

NextApi == Next \/ \E j \in JobIds : GetStatus(j) \/ GetDetails(j)

SpecApi == InitApi /\ [][NextApi]_vars

\* the DockerService under any sequence of calls
NextDocker ==
    \E j \in JobIds :
        \/ CreateAnalysisContainer(j)
        \/ StartContainer(j)
        \/ ContainerExits(j)
        \/ StopContainer(j)
        \/ StopContainerSettle(j)

SpecDocker == Init /\ [][NextDocker]_vars

\* calculateRiskScore applied to any lists of commits, dependencies and
\* alerts; the lists are drawn in non-decreasing order, as the sums the
\* function forms do not depend on the order
ScoreInputs == {21, 22, 80}

AllLevels == <<"safe", "low", "medium", "high", "critical">>

AllSeverities == <<"low", "medium", "high", "critical">>

SortedLists(S, n) ==
    {s \in UNION {[1..k -> S] : k \in 0..n} : \A i \in 1..(Len(s) - 1) : s[i] <= s[i + 1]}

ScoredJob(cs, ds, as) ==
    [NewJob(GoodUrl, "nodejs") EXCEPT
        !.status = "analyzing", !.progress = 80, !.repoInfo = TRUE, !.aiSummary = [assigned |-> TRUE, valid |-> TRUE],
        !.commits = [i \in 1..Len(cs) |-> [riskScore |-> cs[i], confidence |-> 0]],
        !.dependencies = [i \in 1..Len(ds) |->
                             [riskLevel |-> AllLevels[ds[i]], isTyposquat |-> FALSE, confidence |-> 0]],
        !.alerts = [i \in 1..Len(as) |-> AlertRec(AllSeverities[as[i]], "commit", "High-risk commit", 0)]]

InitScore ==
    /\ env = [Env EXCEPT !.maxSaveFailures = 0]
    /\ \E cs \in SortedLists(ScoreInputs, MaxScoreItems),
          ds \in SortedLists(DOMAIN AllLevels, MaxScoreItems),
          as \in SortedLists(DOMAIN AllSeverities, MaxScoreItems) :
        job = [j \in JobIds |-> IF j = "j1" THEN ScoredJob(cs, ds, as) ELSE NoJob]
    /\ store = job
    /\ activeJobs = {"j1"}
    /\ bus = [r \in JobIds |-> <<>>]
    /\ workspace = {"j1"}
    /\ cleanups = [j \in JobIds |-> 0]
    /\ pc = [j \in JobIds |-> IF j = "j1" THEN "risk" ELSE "none"]
    /\ err = [j \in JobIds |-> "none"]
    /\ loop = [j \in JobIds |-> NoLoop]
    /\ fails = [j \in JobIds |-> 0]
    /\ res = NoResponse
    /\ docker = NoDocker
    /\ sanitized = NotSanitized

NextScore == \E j \in JobIds : CalculateRiskScore(j)

SpecScore == InitScore /\ [][NextScore]_vars

\* every save succeeds: the runs of a system whose database never fails
InitReliable == env = [Env EXCEPT !.maxSaveFailures = 0] /\ InitState

SpecReliable == InitReliable /\ [][Next]_vars

\* repositories with more commits than one batch of analyzeCommits holds, none
\* of them flagged by the oracle
InitBatches ==
    env = [Env EXCEPT !.maxCommits = batchSize + MaxExtraCommits, !.maxFlagged = 0] /\ InitState

SpecBatches == InitBatches /\ [][Next]_vars

\* sanitizeConfidence applied to any value: null, undefined, an object, a
\* boolean, NaN, numbers below 0, within 0..1 and above 1, and every string
\* of at most MaxChars characters
Chars == {"-", ".", "%", "x", "0", "1", "5"}

Strings(n) == UNION {[1..k -> Chars] : k \in 0..n}

ConfidenceValues ==
    {JsUndefined, JsNull, JsObject, JsBoolean, JsNaN}
    \cup {JsNumber((k * One) \div 2) : k \in {0 - 1, 0, 1, 2, 3, 100, 300}}
    \cup {JsString(s) : s \in Strings(MaxChars)}

InitConfidence ==
    /\ env = Env
    /\ job = [j \in JobIds |-> NoJob]
    /\ store = [j \in JobIds |-> NoJob]
    /\ activeJobs = {}
    /\ bus = [r \in JobIds |-> <<>>]
    /\ workspace = {}
    /\ cleanups = [j \in JobIds |-> 0]
    /\ pc = [j \in JobIds |-> "none"]
    /\ err = [j \in JobIds |-> "none"]
    /\ loop = [j \in JobIds |-> NoLoop]
    /\ fails = [j \in JobIds |-> 0]
    /\ res = NoResponse
    /\ docker = NoDocker
    /\ \E value \in ConfidenceValues :
          sanitized = [NotSanitized EXCEPT !.value = value]

Sanitize ==
    /\ ~sanitized.applied
    /\ sanitized' = [sanitized EXCEPT !.applied = TRUE,
                                      !.result = sanitizeConfidence(sanitized.value)]
    /\ UNCHANGED <<env, res, docker, engineVars>>

NextConfidence == Sanitize

SpecConfidence == InitConfidence /\ [][NextConfidence]_vars

\* the oracle is unavailable for every call and every save succeeds; a run
\* that can take a step eventually takes one
InitOracleDown ==
    env = [Env EXCEPT !.oracleUp = FALSE, !.maxSaveFailures = 0] /\ InitState

SpecOracleDown == InitOracleDown /\ [][Next]_vars /\ Fairness

\* two jobs submitted to the same engine and run concurrently, each on a
\* repository with at most one commit and one dependency, one item flagged
\* by the oracle, with a database that never fails
InitTwoJobs ==
    env = [Env EXCEPT !.ids = JobIds, !.maxCommits = 1, !.maxDeps = 1,
                      !.maxFlagged = 1, !.maxSaveFailures = 0] /\ InitState

SpecTwoJobs == InitTwoJobs /\ [][Next]_vars

\* ======================================================================
\* Properties
\* ======================================================================
Statuses == {"pending", "cloning", "analyzing", "completed", "failed"}
Terminal == {"completed", "failed"}

RunEnded(j) == pc[j] = "ended"

Events(j) == bus[Room(j)]
DoneEvents(j) == SelectType(Events(j), "done")
Percentages(j) == [i \in DOMAIN SelectType(Events(j), "progress") |->
                       SelectType(Events(j), "progress")[i].percentage]

NonDecreasing(s) == \A a, b \in DOMAIN s : a <= b => s[a] <= s[b]

\* C1: every background run that has ended has published a `done` event for
\* its job, whatever failed on the way, a failed save inside the error
\* handler included.
C1_DoneOnEveryPath ==
    \A j \in JobIds : RunEnded(j) => Len(DoneEvents(j)) >= 1

\* C2: once its run has ended, every job created by startAnalysis has a
\* terminal status (completed or failed) in the store getJobStatus reads.
C2_TerminalStatusInStore ==
    \A j \in JobIds : RunEnded(j) => store[j].status \in Terminal

StatusEdges ==
    {<<"pending", "cloning">>, <<"cloning", "analyzing">>, <<"analyzing", "completed">>,
     <<"pending", "failed">>, <<"cloning", "failed">>, <<"analyzing", "failed">>}

\* C3: the status of a Job changes only along pending->cloning,
\* cloning->analyzing, analyzing->completed and {pending, cloning,
\* analyzing}->failed; a completed or failed job never changes status again.
C3_StatusEdges ==
    [][\A j \in JobIds :
          (job[j].status \in Statuses /\ job'[j].status \in Statuses
           /\ job'[j].status # job[j].status)
          => <<job[j].status, job'[j].status>> \in StatusEdges]_vars

\* C4: every background run ends with the teardown of its job: the workspace
\* cleanup has been invoked and the job id is absent from activeJobs.
C4_TeardownOnEveryPath ==
    \A j \in JobIds : RunEnded(j) => cleanups[j] >= 1 /\ j \notin activeJobs

\* C5: within one job progress never decreases, neither the progress field of
\* the Job (in memory and as stored) over any step of the run, nor the
\* percentages of its successive `progress` events.
C5_ProgressMonotone ==
    [][\A j \in JobIds :
          /\ (job[j] # NoJob /\ job'[j] # NoJob) => job'[j].progress >= job[j].progress
          /\ (store[j] # NoJob /\ store'[j] # NoJob) => store'[j].progress >= store[j].progress
          /\ NonDecreasing(Percentages(j)')]_vars

\* a failed job whose commit analysis published the progress of a second batch
C5_Witness ==
    \E j \in JobIds :
        /\ store[j].status = "failed"
        /\ \E i \in DOMAIN Percentages(j) : Percentages(j)[i] > 15 /\ Percentages(j)[i] < 40

\* C6: at most one `done` event is published per job and it is the last event
\* of the job's stream: no log, alert or progress event follows it.
C6_SingleTerminalDone ==
    \A j \in JobIds :
        /\ Len(DoneEvents(j)) <= 1
        /\ \A i \in DOMAIN Events(j) : Events(j)[i].type = "done" => i = Len(Events(j))

\* a run that ended after publishing logs, an alert and then its `done`
C6_Witness ==
    \E j \in JobIds :
        /\ RunEnded(j)
        /\ Len(DoneEvents(j)) = 1
        /\ Len(SelectType(Events(j), "alert")) >= 1
        /\ Len(SelectType(Events(j), "log")) >= 1

\* C7: when cloneRepository throws, the job ends failed in the store with the
\* error message in buildInfo.errors, the `done` event carries riskScore 0,
\* riskLevel "unknown" and the message, and the job is not in activeJobs.
C7_UnreachableRepository ==
    \A j \in JobIds :
        (RunEnded(j) /\ err[j] = "CloneFailed")
        => /\ store[j].status = "failed"
           /\ store[j].buildInfo.errors = <<"CloneFailed">>
           /\ DoneEvents(j) = <<FailedDoneEvent("CloneFailed")>>
           /\ j \notin activeJobs

AlertKey(a) == <<a.severity, a.type, a.title, a.item>>
AlertEventKey(e) == <<e.severity, e.kind, e.title, e.item>>

\* C8: the alerts persisted on the Job are exactly the `alert` events
\* published for it: as many, in the same order, with the same severity, type
\* and title.
C8_AlertsMatchEvents ==
    \A j \in JobIds :
        RunEnded(j) =>
            [i \in DOMAIN store[j].alerts |-> AlertKey(store[j].alerts[i])]
            = [i \in DOMAIN SelectType(Events(j), "alert") |->
                   AlertEventKey(SelectType(Events(j), "alert")[i])]

LogKey(l) == <<l.level, l.message, l.source, l.arg>>

\* C9: the log entries persisted on the Job are exactly the `log` events
\* published for it, in the same order.
C9_LogsMatchEvents ==
    \A j \in JobIds :
        RunEnded(j) =>
            [i \in DOMAIN store[j].logs |-> LogKey(store[j].logs[i])]
            = [i \in DOMAIN SelectType(Events(j), "log") |->
                   LogKey(SelectType(Events(j), "log")[i])]

SuccessDone(e) == e.type = "done" /\ e.error = "none"

\* C10: the `done` event of a successful run carries the job's final riskScore
\* and riskLevel and a summary counted from the job: all alerts, the critical
\* alerts, the dependencies of level high or critical, the commits of
\* riskScore above 70; and the job it describes is completed at progress 100.
C10_DoneDescribesJob ==
    \A j \in JobIds : \A i \in DOMAIN Events(j) :
        SuccessDone(Events(j)[i]) =>
            \A doc \in {job[j], store[j]} :
                /\ doc.status = "completed"
                /\ doc.progress = 100
                /\ Events(j)[i].riskScore = doc.riskScore
                /\ Events(j)[i].riskScore \in 0..100
                /\ Events(j)[i].riskLevel = doc.riskLevel
                /\ Events(j)[i].summary.totalAlerts = Len(doc.alerts)
                /\ Events(j)[i].summary.criticalAlerts
                   = Cardinality({a \in DOMAIN doc.alerts : doc.alerts[a].severity = "critical"})
                /\ Events(j)[i].summary.dependencyIssues
                   = Cardinality({d \in DOMAIN doc.dependencies :
                                     doc.dependencies[d].riskLevel \in {"high", "critical"}})
                /\ Events(j)[i].summary.commitIssues
                   = Cardinality({k \in DOMAIN doc.commits : doc.commits[k].riskScore > 70})

\* a successful run whose `done` event reports a high-risk commit and alerts
\* none of which is critical
C10_Witness ==
    \E j \in JobIds : \E i \in DOMAIN Events(j) :
        /\ SuccessDone(Events(j)[i])
        /\ Events(j)[i].summary.commitIssues = 1
        /\ Events(j)[i].summary.totalAlerts >= 1
        /\ Events(j)[i].summary.criticalAlerts = 0

\* a reference of the form https://github.com/<owner>/<repository>
GitHubReference(repoUrl) ==
    /\ Len(repoUrl) >= 5
    /\ SubSeq(repoUrl, 1, 3) = <<"https:", "", "github.com">>
    /\ repoUrl[4] # "" /\ repoUrl[5] # ""

Acceptable(repoUrl, projectType) ==
    GitHubReference(repoUrl) /\ projectType \in {"nodejs", "python"}

IsSubmission(r) == r.req # <<>> /\ r.req[1] = "POST /api/analyze-repo"

\* C11: a submission whose reference is empty or not a GitHub reference, or
\* whose category is empty or neither nodejs nor python, is answered 400 and
\* changes nothing: no Job document or stored Job ever carries such a
\* submission, and the step that rejects leaves jobs, store, registry, runs
\* and events as they were.
C11_RejectionChangesNothing ==
    [][/\ \A j \in JobIds :
            /\ job'[j] # NoJob => Acceptable(job'[j].repoUrl, job'[j].projectType)
            /\ store'[j] # NoJob => Acceptable(store'[j].repoUrl, store'[j].projectType)
       /\ (res' # res /\ IsSubmission(res'))
            => /\ res'.code = 400 <=> ~Acceptable(res'.req[2], res'.req[3])
               /\ res'.code = 400 => UNCHANGED <<engineVars, docker>>]_vars

\* a reference that is not a GitHub reference was rejected while a job was
\* running
C11_Witness ==
    /\ res.code = 400
    /\ res.body.error = "Invalid GitHub repository URL format"
    /\ activeJobs # {}

\* C12: the response to a successful submission reports the job as pending,
\* the status startAnalysis persisted.
C12_ReturnedPending ==
    (IsSubmission(res) /\ res.code = 200) => res.body.status = "pending"

IsRead(r) == r.req # <<>> /\ r.req[1] \in {"GET /api/job/status", "GET /api/job/details"}

Scored(j) == pc[j] = "status90"

\* the weighted mean of the means of the non-empty lists, as an exact
\* fraction <<numerator, denominator>> (<<0, 0>> when every list is empty)
WeightedMean(doc) ==
    LET c == CommitMean(doc)
        d == DependencyMean(doc)
        a == AlertMean(doc)
        dc == IF c[2] > 0 THEN c[2] ELSE 1
        dd == IF d[2] > 0 THEN d[2] ELSE 1
        da == IF a[2] > 0 THEN a[2] ELSE 1
    IN  <<c[1] * 40 * dd * da + d[1] * 35 * dc * da + a[1] * 25 * dc * dd,
          ((IF c[2] > 0 THEN 40 ELSE 0) + (IF d[2] > 0 THEN 35 ELSE 0)
           + (IF a[2] > 0 THEN 25 ELSE 0)) * dc * dd * da>>

\* n = round(m) for the fraction m, halves rounded up as Math.round does
IsRounded(n, m) == 2 * m[2] * n <= 2 * m[1] + m[2] /\ 2 * m[1] + m[2] < 2 * m[2] * (n + 1)

\* C14: for all lists of commits, dependencies and alerts, calculateRiskScore
\* sets the score to the rounded weighted mean of the means of the non-empty
\* lists (weights 0.40, 0.35, 0.25), to 0 when all lists are empty, the score
\* lies in 0..100, and the level is low below 25, medium below 50, high below
\* 75 and critical from 75.
C14_ScoreFormula ==
    \A j \in JobIds :
        Scored(j) =>
            LET m == WeightedMean(job[j])
                n == job[j].riskScore
                l == job[j].riskLevel
            IN  /\ n \in 0..100
                /\ IF m[2] = 0 THEN n = 0 ELSE IsRounded(n, m)
                /\ l = "low" <=> n < 25
                /\ l = "medium" <=> n >= 25 /\ n < 50
                /\ l = "high" <=> n >= 50 /\ n < 75
                /\ l = "critical" <=> n >= 75

\* one commit of riskScore 80, one critical alert, no dependencies
IsExample(doc) ==
    /\ Len(doc.commits) = 1 /\ doc.commits[1].riskScore = 80
    /\ Len(doc.dependencies) = 0
    /\ Len(doc.alerts) = 1 /\ doc.alerts[1].severity = "critical"

C16_ScoringNeverFailsJob ==
    [][\A j \in JobIds :
          (pc[j] = "risk" /\ pc'[j] # "risk")
          => /\ pc'[j] = "status90"
             /\ job'[j].status # "failed"
             /\ \/ job'[j].riskScore = RiskScoreOf(job[j])
                \/ job'[j].riskScore = 50 /\ job'[j].riskLevel = "medium"]_vars

\* C17: when the oracle is unavailable, every verdict attached to a commit is
\* the fallback verdict (risk score 25, confidence 0.1) and every verdict
\* attached to a dependency is the fallback verdict (risk level medium,
\* confidence 0.1)
C17_FallbackVerdict ==
    \A j \in JobIds : job[j] # NoJob =>
        /\ \A i \in DOMAIN job[j].commits :
               job[j].commits[i] = CommitRec(getFallbackCommitAnalysis)
        /\ \A i \in DOMAIN job[j].dependencies :
               job[j].dependencies[i] = DepRec(getFallbackDependencyAnalysis)

\* C18: with the oracle unavailable for every commit, every dependency and
\* the overall assessment, a started run whose repository can be cloned and
\* read reaches completed, no run fails for another reason than its
\* repository, and a finished job has a score in 0..100 and a level among
\* low, medium, high, critical
RepositoryErrors == {"CloneFailed", "GitLogFailed"}

OracleDownOutcome(j) ==
    /\ job[j].status = "failed" => err[j] \in RepositoryErrors
    /\ store[j].status = "failed" => err[j] \in RepositoryErrors
    /\ RunEnded(j) /\ err[j] = "none" =>
           /\ store[j].status = "completed"
           /\ store[j].riskScore \in 0..100
           /\ store[j].riskLevel \in {"low", "medium", "high", "critical"}

C18_OracleDownCompletes ==
    \A j \in JobIds :
        /\ [] OracleDownOutcome(j)
        /\ (pc[j] = "status5") ~> (store[j].status = "completed" \/ err[j] \in RepositoryErrors)

C18_Witness ==
    \E j \in JobIds :
        /\ RunEnded(j)
        /\ store[j].status = "completed"
        /\ Len(store[j].commits) > 0
        /\ Len(store[j].dependencies) > 0
        /\ store[j].aiSummary.assigned

\* C19: an exception raised while one commit or one dependency is analysed
\* is caught at that item and does not fail the job
C19_ItemFailureKeepsJob ==
    \A j \in JobIds :
        loop[j].caught > 0 => job[j].status # "failed" /\ err[j] = "none"

\* C20: once stopContainer (or cleanup) has returned twice for a job id, the
\* substrate was asked to stop at most once, by the first call, and
\* activeContainers has no entry for the job
C20_ReleaseIdempotent ==
    \A j \in JobIds :
        docker.released[j] >= 2 =>
            /\ docker.stops[j] <= 1
            /\ ~docker.activeContainers[j]

\* C21: when stopContainer returns, activeContainers has no entry for the
\* job, whatever container.stop answered
StopContainerReturns(j) == docker'.released[j] = docker.released[j] + 1

C21_ReleaseGuaranteed ==
    [][\A j \in JobIds : StopContainerReturns(j) => ~docker'.activeContainers[j]]_vars

\* C22: when startContainer fails, the resources created for the job are
\* released: activeContainers has no entry for the job and the created
\* container is gone
StartContainerFails(j) == ~docker.startFailed[j] /\ docker'.startFailed[j]

C22_FailedStartReleases ==
    [][\A j \in JobIds :
          StartContainerFails(j) =>
              ~docker'.activeContainers[j] /\ docker'.daemon[j] = "absent"]_vars

\* C23: from the moment the repository of a job is materialized until its run
\* ends, activeContainers holds the handle of the job, and it holds none once
\* the job is completed or failed
Materialized(j) ==
    /\ job[j] # NoJob
    /\ job[j].repoInfo
    /\ job[j].status \in {"cloning", "analyzing"}
    /\ ~RunEnded(j)

C23_OneHandlePerRun ==
    \A j \in JobIds :
        /\ Materialized(j) => docker.activeContainers[j]
        /\ job[j].status \in Terminal => ~docker.activeContainers[j]

\* C24: with two jobs running concurrently, a step of one job (a log, an
\* alert, a progress update, a done event, a failure) writes only to the
\* record and the channel of that job: the record, the stored copy and the
\* channel of the other job are left as they were
StepOf(j) == pc'[j] # pc[j] \/ loop'[j] # loop[j]

Untouched(j) ==
    /\ job'[j] = job[j]
    /\ store'[j] = store[j]
    /\ bus'[Room(j)] = bus[Room(j)]

C24_JobsIsolated ==
    [][\A a, b \in JobIds : a # b /\ StepOf(a) => Untouched(b)]_vars

C24_Witness ==
    \E a, b \in JobIds :
        /\ a # b
        /\ RunEnded(a) /\ store[a].status = "failed"
        /\ Len(bus[Room(a)]) > 0
        /\ ~RunEnded(b) /\ store[b].status = "analyzing"
        /\ Len(store[b].alerts) > 0
        /\ Len(bus[Room(b)]) > 0

\* C25: creating, starting or releasing the container of one job leaves the
\* registry entry and the container of every other job as they were
DockerStepOf(j) ==
    \/ docker'.activeContainers[j] # docker.activeContainers[j]
    \/ docker'.daemon[j] # docker.daemon[j]
    \/ docker'.stopping[j] # docker.stopping[j]
    \/ docker'.released[j] # docker.released[j]
    \/ docker'.startFailed[j] # docker.startFailed[j]

C25_RegistryFrame ==
    [][\A a, b \in JobIds :
          a # b /\ DockerStepOf(a) =>
              /\ docker'.activeContainers[b] = docker.activeContainers[b]
              /\ docker'.daemon[b] = docker.daemon[b]]_vars

C25_Witness ==
    \E a, b \in JobIds :
        /\ a # b
        /\ docker.released[a] >= 1 /\ ~docker.activeContainers[a]
        /\ docker.activeContainers[b] /\ docker.daemon[b] = "running"

\* C26: handleAnalysisError leaves the progress, commits, dependencies and
\* alerts of the job as they were and only appends to its logs; besides the
\* logs it changes status, end time and build outcome only; and what the
\* store returned before the failure it still returns afterwards
IsPrefixOf(s, t) == Len(s) <= Len(t) /\ \A i \in DOMAIN s : s[i] = t[i]

HandlesError(j) == pc[j] = "error" /\ pc'[j] # "error"

KeepsResults(old, new) ==
    /\ new.progress = old.progress
    /\ new.commits = old.commits
    /\ new.dependencies = old.dependencies
    /\ new.alerts = old.alerts
    /\ IsPrefixOf(old.logs, new.logs)
    /\ Len(new.logs) <= Len(old.logs) + 1
    /\ [new EXCEPT !.status = old.status, !.endTime = old.endTime,
                   !.buildInfo = old.buildInfo, !.logs = old.logs] = old

StillReturned(old, new) ==
    /\ IsPrefixOf(old.commits, new.commits)
    /\ IsPrefixOf(old.dependencies, new.dependencies)
    /\ IsPrefixOf(old.alerts, new.alerts)
    /\ IsPrefixOf(old.logs, new.logs)
    /\ old.progress <= new.progress

C26_FailureRevertsNothing ==
    [][\A j \in JobIds :
          HandlesError(j) =>
              /\ KeepsResults(job[j], job'[j])
              /\ StillReturned(store[j], store'[j])]_vars

C26_Witness ==
    \E j \in JobIds :
        /\ RunEnded(j)
        /\ store[j].status = "failed"
        /\ store[j].progress > 0
        /\ Len(store[j].commits) > 0
        /\ Len(store[j].alerts) > 0

\* C27: once the store holds the job with a terminal status, no step writes
\* to the job again, neither to its stored record nor to its document; and
\* before that, logs and alerts are only appended
C27_TerminalImmutable ==
    [][\A j \in JobIds :
          IF store[j].status \in Terminal
          THEN store'[j] = store[j] /\ job'[j] = job[j]
          ELSE store[j] # NoJob /\ store'[j] # NoJob =>
                   /\ IsPrefixOf(store[j].logs, store'[j].logs)
                   /\ IsPrefixOf(store[j].alerts, store'[j].alerts)]_vars

\* C28: a commit has an alert exactly when its riskScore is above 70, with
\* severity critical above 90 and high otherwise; a dependency has a risk
\* alert exactly when its riskLevel is high or critical, with that severity,
\* and a typosquatting alert of severity high exactly when its typosquatting
\* flag is set; the job has no other alert
RiskTitles == {"Risky dependency detected", "Risky dependency"}
TyposquatTitles == {"Potential typosquatting", "Typosquatting detected"}

AlertsAbout(doc, type, titles, item) ==
    {i \in DOMAIN doc.alerts :
        /\ doc.alerts[i].type = type
        /\ doc.alerts[i].title \in titles
        /\ doc.alerts[i].item = item}

AlertRules(doc) ==
    /\ \A p \in DOMAIN doc.commits :
          LET found == AlertsAbout(doc, "commit", {"High-risk commit detected", "High-risk commit"}, p - 1)
              riskScore == doc.commits[p].riskScore
          IN  /\ found # {} <=> riskScore > 70
              /\ \A i \in found :
                    doc.alerts[i].severity = IF riskScore > 90 THEN "critical" ELSE "high"
    /\ \A p \in DOMAIN doc.dependencies :
          LET risk == AlertsAbout(doc, "dependency", RiskTitles, p - 1)
              typo == AlertsAbout(doc, "dependency", TyposquatTitles, p - 1)
              dep == doc.dependencies[p]
          IN  /\ risk # {} <=> dep.riskLevel \in {"high", "critical"}
              /\ \A i \in risk : doc.alerts[i].severity = dep.riskLevel
              /\ typo # {} <=> dep.isTyposquat
              /\ \A i \in typo : doc.alerts[i].severity = "high"
    /\ \A i \in DOMAIN doc.alerts :
          \/ /\ doc.alerts[i].type = "commit"
             /\ doc.alerts[i].item + 1 \in DOMAIN doc.commits
          \/ /\ doc.alerts[i].type = "dependency"
             /\ doc.alerts[i].item + 1 \in DOMAIN doc.dependencies

C28_AlertRules ==
    \A j \in JobIds : job[j] # NoJob => AlertRules(job[j])

\* C29: sanitizeConfidence returns a number within 0..1 for every value: a
\* number within 0..1 as it is, a number above 1 as a percentage capped at 1,
\* a negative number as 0, a string ending in % as that percentage, and 0
\* for null, undefined, NaN, a non-numeric string and any other type
InUnitRange(x) == x.t = "number" /\ ~x.nan /\ 0 <= x.n /\ x.n <= One

Invalid(value) ==
    \/ value.t \notin {"number", "string"}
    \/ value.t = "number" /\ value.nan
    \/ value.t = "string" /\ parseFloat(value.s).nan

Clamped(n) == JsNumber(Max(0, Min(n, One)))

C29_SanitizedConfidence ==
    sanitized.applied =>
        LET value == sanitized.value
            result == sanitized.result
        IN  /\ InUnitRange(result)
            /\ Invalid(value) => result = JsNumber(0)
            /\ value.t = "number" /\ ~value.nan =>
                  result = IF value.n > One THEN JsNumber(Min(value.n \div 100, One))
                           ELSE Clamped(value.n)
            /\ value.t = "string" /\ endsWith(value.s, "%") /\ ~parseFloat(value.s).nan =>
                  result = Clamped(parseFloat(value.s).n \div 100)

\* C30: the alert a verdict produces carries the sanitized confidence stored
\* with that verdict on the commit or the dependency, a value within 0..1,
\* so the document with the alert appended passes the schema
CarriesVerdictConfidence(doc, a) ==
    /\ a.title = "High-risk commit detected" =>
           a.aiConfidence = doc.commits[a.item + 1].confidence
    /\ a.title = "Risky dependency detected" =>
           a.aiConfidence = doc.dependencies[a.item + 1].confidence
    /\ a.aiConfidence # NoConfidence => 0 <= a.aiConfidence /\ a.aiConfidence <= 100

C30_AlertConfidenceSanitized ==
    \A j \in JobIds : job[j] # NoJob =>
        /\ \A i \in DOMAIN job[j].alerts : CarriesVerdictConfidence(job[j], job[j].alerts[i])
        /\ \A i \in DOMAIN job[j].alerts : ValidConfidence(job[j].alerts[i].aiConfidence)

====
